---- MODULE Spec2Model ----
(***************************************************************************)
(* Batch orchestration of compress.py: the runs the GUI starts over its    *)
(* list of folders (run_compression_threaded), the call of                 *)
(* compress_all_pdfs_in_directory_threaded it makes for each folder, the   *)
(* worker tasks compress_single_pdf_task that call submits to its thread   *)
(* pool, and the file system they act on.                                  *)
(*                                                                         *)
(* A directory is a sequence of component names.  A file path is a record  *)
(* [parent, stem, suffix]; Path.name is stem \o suffix.  File sizes are in *)
(* units of half a megabyte, so the 0.5 MB / 2 MB / 5 MB files of the      *)
(* scenario have sizes 1, 4 and 10.                                        *)
(*                                                                         *)
(* Two more programs of the repository are modelled on their own: the      *)
(* storage service of file_service.py (ServiceSpec) and the rendering      *)
(* compressor compress_with_settings of compress_v2.py (RenderSpec).       *)
(***************************************************************************)
EXTENDS Integers, Sequences, FiniteSets, TLC

\* ------------------------------------------------------------------ bounds
\* largest pool size a session is started with
MaxThreads == 2
\* number of events the environment injects (tool errors, failed
\* file-system calls, files and folders deleted behind the program's back,
\* the stop signal)
MaxFaults == 2
\* number of times the start button is pressed
MaxRuns == 2

\* ------------------------------------------------------------------- paths
File(parent, stem, suffix) == [parent |-> parent, stem |-> stem, suffix |-> suffix]

\* Path.name
PathName(p) == p.stem \o p.suffix

IsPrefix(d, e) == Len(d) <= Len(e) /\ SubSeq(e, 1, Len(d)) = d

\* Path.relative_to(base) for a path below base
relative_to(p, base) == [p EXCEPT !.parent = SubSeq(p.parent, Len(base) + 1, Len(p.parent))]

\* base / rel
Join(base, rel) == [rel EXCEPT !.parent = base \o rel.parent]

\* all ancestors of a directory, the directory included
Ancestors(d) == {SubSeq(d, 1, n) : n \in 0..Len(d)}

\* ---------------------------------------------------------------- contents
Original(src, size) == [src |-> src, form |-> "original", size |-> size]
Compressed(c) == [src |-> c.src, form |-> "compressed", size |-> (c.size + 1) \div 2]
Partial(c) == [src |-> c.src, form |-> "partial", size |-> 0]

\* ------------------------------------------------------- initial directories
\* three PDFs of 0.5 MB, 2 MB and 5 MB, one of them in a subdirectory with
\* the name of a file of the root, and a file that is not a PDF
TreePlain ==
    (File(<<"D">>, "a", ".pdf") :> Original("a", 4))
    @@ (File(<<"D">>, "b", ".pdf") :> Original("b", 1))
    @@ (File(<<"D", "sub">>, "a", ".pdf") :> Original("sub_a", 10))
    @@ (File(<<"D">>, "notes", ".txt") :> Original("notes", 10))

\* a root on which a replace-with-backup session ran before: the backup of
\* a.pdf is still in original_backups
TreeRerun ==
    (File(<<"D">>, "a", ".pdf") :> Original("a", 4))
    @@ (File(<<"D">>, "a_backup_1", ".pdf") :> Original("a_b1", 10))
    @@ (File(<<"D", "original_backups">>, "a", ".pdf") :> Original("a_old", 1))

\* two selected folders: one PDF of 2 MB in the first, nothing in the second
TreeTwoFolders ==
    (File(<<"E">>, "e", ".pdf") :> Original("e", 4))

InitialTrees == {TreePlain, TreeRerun}

\* the folder lists of the GUI and the files they are started on
Selections ==
    {[folders |-> <<(<<"D">>)>>, tree |-> t] : t \in InitialTrees}
        \cup {[folders |-> <<(<<"E">>), (<<"F">>)>>, tree |-> TreeTwoFolders]}

ReplaceModes == {"no_replace", "replace_with_backup", "replace_without_backup"}

\* thresholds: none, 2 MB, and one above every file
MinSizes == {0, 4, 11}

NoSummary == [status |-> "none"]
NoResult == [status |-> "none"]
NoPath == File(<<>>, "", "")

NoDir == <<"None">>

NoTotals ==
    [total_processed |-> 0, total_successful |-> 0, total_failed |-> 0,
     total_skipped |-> 0, total_original_size |-> 0, total_compressed_size |-> 0]

VARIABLES
    fs,                      \* file path -> content, for the files that exist
    dirs,                    \* the directories that exist
    fs0,                     \* the files before the session
    replace_mode, recursive, min_file_size_mb, max_threads,
    selected_folders,        \* the GUI's list of folders
    confirmed,               \* the list of folders when the run was confirmed
    folder_i,                \* folders the loop of the run has taken from the list
    gui,                     \* position of the run: "idle", "loop" or "call"
    stop_processing,         \* the stop event
    start_button,            \* "normal" or "disabled"
    dialog,                  \* the message box the last run ended with
    totals,                  \* the totals of the run
    runs,                    \* runs started so far
    history,                 \* what the sessions that returned have reported
    directory,               \* the root of the session
    log,                     \* what the session has logged about its root
    pc,                      \* position of the session's coordinating thread
    pdf_files, files_to_process, skipped_files, tasks,
    futures,                 \* task index -> state of the worker running it
    consumed,                \* futures already drained from as_completed
    successful_compressions, failed_compressions,
    total_original_size, total_compressed_size,
    summary,                 \* the returned dict
    faults,                  \* failures injected so far
    stat_failed,             \* files whose size could not be read by the filter
    storage,                 \* the storage service: job id -> its job directory
    clock,                   \* what datetime.now() reads, in half hours
    inflight,                \* the request waiting at "await file.read()"
    outcome,                 \* what the last operation of the service gave
    doc, new_doc,            \* the documents of compress_with_settings
    stage,                   \* position of compress_with_settings
    call                     \* the input and the settings of its call

vars == <<fs, dirs, fs0, replace_mode, recursive, min_file_size_mb, max_threads,
          selected_folders, confirmed, folder_i, gui, stop_processing, start_button,
          dialog, totals, runs, history, directory, log,
          pc, pdf_files, files_to_process, skipped_files, tasks, futures, consumed,
          successful_compressions, failed_compressions,
          total_original_size, total_compressed_size, summary, faults, stat_failed,
          storage, clock, inflight, outcome, doc, new_doc, stage, call>>

\* the storage service of file_service.py
service == <<storage, clock, inflight, outcome>>
\* the rendering compressor of compress_v2.py
renderer == <<doc, new_doc, stage, call>>
\* the programs that take no part in a batch run
others == <<service, renderer>>

settings == <<replace_mode, recursive, min_file_size_mb, max_threads>>
\* what the run holds while a session is at work
frame == <<selected_folders, confirmed, folder_i, gui, start_button, dialog, totals,
           runs, history, directory>>
params == <<settings, others, fs0, frame, stop_processing, log>>
counters == <<successful_compressions, failed_compressions,
              total_original_size, total_compressed_size>>
lists == <<pdf_files, files_to_process, skipped_files>>

\* ------------------------------------------------------------ the settings
replace_originals == replace_mode \in {"replace_with_backup", "replace_without_backup"}
create_backup_flag == replace_mode = "replace_with_backup"

\* an output directory made inside the root
output_base_dir_inside ==
    IF replace_originals
    THEN directory \o <<"temp_compressed">>
    ELSE directory \o <<"compressed_pdfs">>

output_base_dir ==
    IF replace_originals
    THEN directory \o <<"temp_compressed">>
    ELSE SubSeq(directory, 1, Len(directory) - 1)
             \o <<directory[Len(directory)] \o "_compressed_pdfs">>

HasBackupBase == replace_originals /\ create_backup_flag
backup_base_dir == directory \o <<"original_backups">>

\* ------------------------------------------------------------- file system
get_file_size(f, p) == IF p \in DOMAIN f THEN f[p].size ELSE 0

Remove(f, p) == [q \in DOMAIN f \ {p} |-> f[q]]
Put(f, p, c) == [q \in DOMAIN f \cup {p} |-> IF q = p THEN c ELSE f[q]]

\* a recursive search that only looks below the directory
find_all_pdfs_below(f, dir, rec) ==
    {p \in DOMAIN f : /\ p.suffix = ".pdf"
                      /\ IF rec THEN IsPrefix(dir, p.parent) /\ p.parent # dir
                                ELSE p.parent = dir}

find_all_pdfs(f, dir, rec) ==
    {p \in DOMAIN f : /\ p.suffix = ".pdf"
                      /\ IF rec THEN IsPrefix(dir, p.parent) ELSE p.parent = dir}

\* the orders in which a set can be listed
Orders(S) == {s \in [1..Cardinality(S) -> S] : \A i, j \in DOMAIN s : i # j => s[i] # s[j]}

Range(s) == {s[i] : i \in DOMAIN s}

\* the orders in which rglob and glob can list files: the files of a
\* directory come together, in any order, and before the files of the
\* directories below it
ListingOrders(S) ==
    {s \in Orders(S) :
        \A i, j \in DOMAIN s :
            i < j =>
                /\ ~(IsPrefix(s[j].parent, s[i].parent) /\ s[j].parent # s[i].parent)
                /\ s[i].parent = s[j].parent =>
                       \A k \in i..j : s[k].parent = s[i].parent}

\* the local variables of a session, before it starts and after it is over
NoSession ==
    /\ pdf_files' = <<>> /\ files_to_process' = <<>> /\ skipped_files' = <<>>
    /\ tasks' = <<>>
    /\ futures' = <<>>
    /\ consumed' = {}
    /\ successful_compressions' = 0 /\ failed_compressions' = 0
    /\ total_original_size' = 0 /\ total_compressed_size' = 0
    /\ summary' = NoSummary
    /\ stat_failed' = {}

\* ------------------------------------------------- the storage service
\* line 16: the retention of the sweep, in hours
FILE_RETENTION_HOURS == 1
\* the clock counts half hours, the pause of the sweep (line 207: 1800 s)
TicksPerHour == 2
\* the clock readings of a behaviour
MaxClock == 3

\* the job ids of the requests
JobIds == {"j1", "j2"}
NoJob == "none"
\* len(content) of the files that are uploaded and stored
UploadSizes == {0, 2}
CompressedSizes == {1}

\* a job directory: the file original_*, metadata.json and the file
\* compressed_*, each a sequence that is empty while the file is missing.
\* Every request brings the same file name
JobDir(original, metadata, compressed) ==
    [original |-> original, metadata |-> metadata, compressed |-> compressed]

\* STORAGE_DIR without a job directory
NoJobs == [j \in {} |-> JobDir(<<>>, <<>>, <<>>)]

NoRequest == [op |-> "none", job |-> NoJob, size |-> 0]

\* status 0: no response yet
Outcome(op, job, status, detail) ==
    [op |-> op, job |-> job, status |-> status, detail |-> detail,
     ratio |-> <<>>, cleaned |-> {}]

\* ---------------------------------------------- the rendering compressor
\* the pages of the input documents
MaxPages == 2
\* Image.mode of the rendered pages
Modes == {"RGB", "RGBA"}
\* the value None
None == <<>>
NoCall == [pages |-> 0, mode |-> "RGB", grayscale |-> FALSE, image_format |-> "JPEG",
           remove_meta |-> FALSE, error |-> FALSE]

Init ==
    /\ \E s \in Selections :
          /\ selected_folders = s.folders
          /\ fs = s.tree
          /\ dirs = UNION {Ancestors(p.parent) : p \in DOMAIN s.tree}
                        \cup UNION {Ancestors(d) : d \in Range(s.folders)}
    /\ fs0 = fs
    /\ confirmed = <<>>
    /\ folder_i = 0
    /\ gui = "idle"
    /\ stop_processing = FALSE
    /\ start_button = "normal"
    /\ dialog = "none"
    /\ totals = NoTotals
    /\ runs = 0
    /\ history = <<>>
    /\ directory = NoDir
    /\ log = {}
    /\ replace_mode \in ReplaceModes
    /\ recursive \in BOOLEAN
    /\ min_file_size_mb \in MinSizes
    \* the sessions that process every file of the tree keep the originals
    /\ min_file_size_mb = 0 => replace_mode = "no_replace"
    /\ max_threads \in 1..MaxThreads
    /\ pc = "idle"
    /\ pdf_files = <<>> /\ files_to_process = <<>> /\ skipped_files = <<>>
    /\ tasks = <<>>
    /\ futures = <<>>
    /\ consumed = {}
    /\ successful_compressions = 0 /\ failed_compressions = 0
    /\ total_original_size = 0 /\ total_compressed_size = 0
    /\ summary = NoSummary
    /\ faults = 0
    /\ stat_failed = {}
    /\ storage = NoJobs
    /\ clock = 0
    /\ inflight = NoRequest
    /\ outcome = Outcome("none", NoJob, 0, "")
    /\ doc = None /\ new_doc = None
    /\ stage = "idle"
    /\ call = NoCall

\* ------------------------------------------------- the coordinating thread
\* Path.parent
Parent(d) == SubSeq(d, 1, Len(d) - 1)

\* lines 306-316: the output directory and the backup directory are made;
\* mkdir(exist_ok=True), without parents=True, raises FileNotFoundError when
\* the parent of the directory is missing
MakeOutputDirs ==
    /\ pc = "start"
    /\ \/ /\ Parent(output_base_dir) \in dirs
          /\ dirs' = dirs \cup {output_base_dir}
                          \cup (IF HasBackupBase THEN {backup_base_dir} ELSE {})
          /\ pc' = "discover"
          /\ faults' = faults
       \/ /\ Parent(output_base_dir) \notin dirs
          /\ dirs' = dirs
          /\ pc' = "raised"
          /\ faults' = faults
       \/ /\ Parent(output_base_dir) \in dirs
          /\ faults < MaxFaults
          /\ faults' = faults + 1
          /\ pc' = "raised"
          /\ \/ dirs' = dirs
             \/ HasBackupBase /\ dirs' = dirs \cup {output_base_dir}
    /\ UNCHANGED <<fs, params, lists, tasks, futures, consumed, counters, summary, stat_failed>>

\* a session that goes on to the size filter with an empty list
Discover_empty_goes_on ==
    /\ pc = "discover"
    /\ \E found \in ListingOrders(find_all_pdfs(fs, directory, recursive)) :
          /\ pdf_files' = found
          /\ summary' = summary
          /\ pc' = "filter"
    /\ UNCHANGED <<fs, dirs, params, files_to_process, skipped_files, tasks, futures,
                   consumed, counters, faults, stat_failed>>

\* lines 322-329
Discover ==
    /\ pc = "discover"
    /\ \E found \in ListingOrders(find_all_pdfs(fs, directory, recursive)) :
          /\ pdf_files' = found
          /\ IF found = <<>>
             THEN /\ summary' = [successful |-> 0, failed |-> 0, skipped |-> 0,
                                 message |-> "No PDF files found"]
                  /\ pc' = "returned"
             ELSE /\ summary' = summary
                  /\ pc' = "filter"
    /\ UNCHANGED <<fs, dirs, params, files_to_process, skipped_files, tasks, futures,
                   consumed, counters, faults, stat_failed>>

\* lines 331-355: the size filter; a size that cannot be read is reported
\* as 0 by get_file_size (lines 86-88)
SizeSeen(p, unreadable) == IF p \in unreadable THEN 0 ELSE get_file_size(fs, p)

\* the skipped list built with a test that does not mirror the one of the
\* list to process
RECURSIVE SkippedOf_mirrored(_, _)
SkippedOf_mirrored(files, unreadable) ==
    IF files = <<>> THEN <<>>
    ELSE LET p == Head(files)
             file_size_mb == SizeSeen(p, unreadable)
             rest == SkippedOf_mirrored(Tail(files), unreadable)
         IN  IF file_size_mb > min_file_size_mb THEN rest
             ELSE <<(<<p, file_size_mb>>)>> \o rest

RECURSIVE SkippedOf(_, _)
SkippedOf(files, unreadable) ==
    IF files = <<>> THEN <<>>
    ELSE LET p == Head(files)
             file_size_mb == SizeSeen(p, unreadable)
             rest == SkippedOf(Tail(files), unreadable)
         IN  IF file_size_mb >= min_file_size_mb THEN rest
             ELSE <<(<<p, file_size_mb>>)>> \o rest

\* the filter with > in place of >=
ToProcessOf_strict(files, unreadable) ==
    SelectSeq(files, LAMBDA p : SizeSeen(p, unreadable) > min_file_size_mb)

ToProcessOf(files, unreadable) ==
    SelectSeq(files, LAMBDA p : SizeSeen(p, unreadable) >= min_file_size_mb)

Filter ==
    /\ pc = "filter"
    /\ \E unreadable \in SUBSET Range(pdf_files) :
          /\ Cardinality(unreadable) <= MaxFaults - faults
          /\ faults' = faults + Cardinality(unreadable)
          /\ stat_failed' = unreadable
          /\ files_to_process' = ToProcessOf(pdf_files, unreadable)
          /\ skipped_files' = SkippedOf(pdf_files, unreadable)
          /\ IF ToProcessOf(pdf_files, unreadable) = <<>>
             THEN /\ summary' = [successful |-> 0, failed |-> 0,
                                 skipped |-> Len(SkippedOf(pdf_files, unreadable)),
                                 message |-> "No PDF files meet the minimum size requirement"]
                  /\ pc' = "returned"
             ELSE /\ summary' = summary
                  /\ pc' = "prepare"
    /\ UNCHANGED <<fs, dirs, params, pdf_files, tasks, futures, consumed, counters>>

\* tasks that write every output straight into the output directory
TaskOf_flat(i, pdf_file) ==
    [pdf_path |-> pdf_file,
     output_path |-> File(output_base_dir, pdf_file.stem, pdf_file.suffix),
     backup_dir |-> IF HasBackupBase THEN backup_base_dir ELSE NoDir,
     thread_id |-> ((i - 1) % max_threads) + 1]

\* lines 357-380: one task per file to process
TaskOf(i, pdf_file) ==
    LET relative_pdf_path == relative_to(pdf_file, directory)
    IN  [pdf_path |-> pdf_file,
         output_path |-> Join(output_base_dir, relative_pdf_path),
         backup_dir |-> IF HasBackupBase
                        THEN backup_base_dir \o relative_pdf_path.parent
                        ELSE NoDir,
         thread_id |-> ((i - 1) % max_threads) + 1]

DirsOf(task) ==
    Ancestors(task.output_path.parent)
        \cup (IF task.backup_dir # NoDir THEN Ancestors(task.backup_dir) ELSE {})

PrepareTasks ==
    /\ pc = "prepare"
    /\ LET all == [i \in 1..Len(files_to_process) |-> TaskOf(i, files_to_process[i])]
       IN  \/ /\ tasks' = all
              /\ dirs' = dirs \cup UNION {DirsOf(all[i]) : i \in DOMAIN all}
              /\ pc' = "submit"
              /\ faults' = faults
           \/ /\ faults < MaxFaults
              /\ faults' = faults + 1
              /\ \E k \in DOMAIN all :
                    /\ tasks' = SubSeq(all, 1, k - 1)
                    /\ dirs' = dirs \cup UNION {DirsOf(all[i]) : i \in 1..(k - 1)}
              /\ pc' = "raised"
    /\ UNCHANGED <<fs, params, lists, futures, consumed, counters, summary, stat_failed>>

\* lines 395-397: every task is submitted to the pool
NewFuture ==
    [pc |-> "queued", result |-> NoResult,
     original_size |-> 0, compressed_size |-> 0,
     backup_path |-> NoPath, counter |-> 0, moving |-> NoResult, events |-> {}]

SubmitAll ==
    /\ pc = "submit"
    /\ futures' = [i \in DOMAIN tasks |-> NewFuture]
    /\ pc' = "pool"
    /\ UNCHANGED <<fs, dirs, params, lists, tasks, consumed, counters, summary,
                   faults, stat_failed>>

\* --------------------------------------------------------- the worker tasks
Running == {i \in DOMAIN futures : futures[i].pc \notin {"queued", "done"}}

Failed(error) == [status |-> "failed", error |-> error]

\* the task returns its result dict and its future is finished
Finish(i, result, events) ==
    futures' = [futures EXCEPT ![i].pc = "done", ![i].result = result,
                               ![i].events = @ \cup events]

Success(f) ==
    [status |-> "success", original_size |-> f.original_size,
     compressed_size |-> f.compressed_size]

\* a pool that stops dispatching once a task has failed
Dispatch_until_failure(i) ==
    /\ pc = "pool"
    /\ futures[i].pc = "queued"
    /\ \A j \in 1..(i - 1) : futures[j].pc # "queued"
    /\ \A j \in DOMAIN futures : futures[j].result.status # "failed"
    /\ Cardinality(Running) < max_threads
    /\ futures' = [futures EXCEPT ![i].pc = "compress"]
    /\ UNCHANGED <<fs, dirs, params, pc, lists, tasks, consumed, counters, summary,
                   faults, stat_failed>>

\* a free pool thread takes the oldest queued task (first submitted, first
\* dispatched)
Dispatch(i) ==
    /\ pc = "pool"
    /\ futures[i].pc = "queued"
    /\ \A j \in 1..(i - 1) : futures[j].pc # "queued"
    /\ Cardinality(Running) < max_threads
    /\ futures' = [futures EXCEPT ![i].pc = "compress"]
    /\ UNCHANGED <<fs, dirs, params, pc, lists, tasks, consumed, counters, summary,
                   faults, stat_failed>>

\* compress_pdf, lines 117-188, and what the task does with its result,
\* lines 250-254 and 266-280.  f2 is the file system the tool leaves and
\* tool what the tool did: "tool_wrote" or "tool_silent".
AfterRun(i, f2, tool) ==
    LET t == tasks[i]
        original_size == get_file_size(fs, t.pdf_path)
        compressed_size == get_file_size(f2, t.output_path)
        sized == [futures[i] EXCEPT !.original_size = original_size,
                                    !.compressed_size = compressed_size,
                                    !.events = @ \cup {"compressed", tool}]
    IN  IF t.output_path \notin DOMAIN f2
        THEN Finish(i, Failed("Output file was not created"), {tool})
        ELSE IF replace_originals
             THEN futures' = [futures EXCEPT ![i] =
                      [sized EXCEPT !.pc = IF create_backup_flag THEN "replace" ELSE "move"]]
             ELSE futures' = [futures EXCEPT ![i] =
                      [sized EXCEPT !.pc = "done", !.result = Success(sized)]]

\* a tool that rewrites the file it reads
RunGhostscript_in_place(f, input_file, output_file) ==
    Put(Put(f, output_file, Compressed(f[input_file])), input_file, Compressed(f[input_file]))

\* the command of lines 128-149: the tool reads input_file and writes the
\* compressed document to -sOutputFile
RunGhostscript(f, input_file, output_file) ==
    Put(f, output_file, Compressed(f[input_file]))

\* a task that runs the tool again after it has failed
ToolFailed_retry(i) ==
    futures' = [futures EXCEPT ![i].events = @ \cup {"tool_error"}]

\* lines 173-188 and 266-280: the exception of the tool ends the task as
\* failed
ToolFailed(i) ==
    Finish(i, Failed("Ghostscript failed"), {"tool_error"})

Compress(i) ==
    /\ pc = "pool"
    /\ futures[i].pc = "compress"
    /\ LET t == tasks[i]
       IN  \/ \* the tool exits with 0 and has written the output file
              /\ t.pdf_path \in DOMAIN fs
              /\ fs' = RunGhostscript(fs, t.pdf_path, t.output_path)
              /\ AfterRun(i, fs', "tool_wrote")
              /\ faults' = faults
           \/ \* the tool exits with 0 and has written nothing
              /\ t.pdf_path \in DOMAIN fs
              /\ faults < MaxFaults
              /\ faults' = faults + 1
              /\ fs' = fs
              /\ AfterRun(i, fs, "tool_silent")
           \/ \* the tool exits with another code
              /\ t.pdf_path \in DOMAIN fs => faults < MaxFaults
              /\ faults' = IF t.pdf_path \in DOMAIN fs THEN faults + 1 ELSE faults
              /\ fs' = fs
              /\ ToolFailed(i)
    /\ UNCHANGED <<dirs, params, pc, lists, tasks, consumed, counters, summary, stat_failed>>

\* replace_original_file, lines 196-201, and the start of create_backup,
\* lines 93-101
\* backup_dir / f"{name_stem}_backup_{counter}{extension}", line 105
BackupName(backup_dir, source_path, counter) ==
    File(backup_dir, source_path.stem \o "_backup_" \o ToString(counter), source_path.suffix)

ReplaceCheck(i) ==
    /\ pc = "pool"
    /\ futures[i].pc = "replace"
    /\ LET t == tasks[i]
       IN  IF t.output_path \notin DOMAIN fs
           THEN /\ Finish(i, Failed("Compressed file not found"), {"replace_failed"})
                /\ dirs' = dirs
           ELSE /\ futures' = [futures EXCEPT
                       ![i].pc = "probe",
                       ![i].backup_path = File(t.backup_dir, t.pdf_path.stem, t.pdf_path.suffix),
                       ![i].counter = 1]
                /\ dirs' = dirs \cup {t.backup_dir}
    /\ UNCHANGED <<fs, params, pc, lists, tasks, consumed, counters, summary,
                   faults, stat_failed>>

\* create_backup, lines 102-106: one test of the loop
Probe(i) ==
    /\ pc = "pool"
    /\ futures[i].pc = "probe"
    /\ LET t == tasks[i]
           f == futures[i]
       IN  IF f.backup_path \in DOMAIN fs
           THEN futures' = [futures EXCEPT
                    ![i].backup_path = BackupName(t.backup_dir, t.pdf_path, f.counter),
                    ![i].counter = f.counter + 1]
           ELSE futures' = [futures EXCEPT ![i].pc = "copy"]
    /\ UNCHANGED <<fs, dirs, params, pc, lists, tasks, consumed, counters, summary,
                   faults, stat_failed>>

\* create_backup, lines 108-114: shutil.copy2 of the original to the backup
\* path; an exception is re-raised by replace_original_file (lines 213-216)
\* and ends the task as failed (lines 262-264)
BackupCopy(i) ==
    /\ pc = "pool"
    /\ futures[i].pc = "copy"
    /\ LET t == tasks[i]
           f == futures[i]
       IN  \/ /\ t.pdf_path \in DOMAIN fs
              /\ fs' = Put(fs, f.backup_path, fs[t.pdf_path])
              /\ futures' = [futures EXCEPT ![i].pc = "move",
                                            ![i].events = @ \cup {"backup_made"}]
              /\ faults' = faults
           \/ \* the copy fails, before or after the backup file was opened
              /\ t.pdf_path \in DOMAIN fs
              /\ faults < MaxFaults
              /\ faults' = faults + 1
              /\ \/ fs' = fs
                 \/ fs' = Put(fs, f.backup_path, Partial(fs[t.pdf_path]))
              /\ Finish(i, Failed("Failed to replace original file"),
                        {"backup_failed", "replace_failed"})
           \/ /\ t.pdf_path \notin DOMAIN fs
              /\ fs' = fs
              /\ faults' = faults
              /\ Finish(i, Failed("Failed to replace original file"),
                        {"backup_failed", "replace_failed"})
    /\ UNCHANGED <<dirs, params, pc, lists, tasks, consumed, counters, summary, stat_failed>>

\* shutil.move(compressed, original), line 208 and line 260.  shutil.move
\* tries os.rename; when os.rename raises OSError (on Windows whenever the
\* destination exists, elsewhere when the staging directory is on another
\* file system) it copies the source over the destination and unlinks the
\* source.
\* the exception of the replace step is logged and the task goes on to
\* report success
MoveFailed_swallowed(i) ==
    Finish(i, Success(futures[i]),
           {"replace_failed"} \cup
           (IF "backup_made" \in futures[i].events THEN {"move_failed_after_backup"} ELSE {}))

MoveFailed(i) ==
    Finish(i, Failed("Failed to replace original file"),
           {"replace_failed"} \cup
           (IF "backup_made" \in futures[i].events THEN {"move_failed_after_backup"} ELSE {}))

\* a move that removes the destination before it looks at the source
MoveMissingSource_delete_first(i) ==
    /\ fs' = Remove(fs, tasks[i].pdf_path)
    /\ faults' = faults
    /\ MoveFailed(i)

\* the source is missing: os.rename raises, the fallback copy fails to open
\* the source and the destination is not touched
MoveMissingSource(i) ==
    /\ fs' = fs
    /\ faults' = faults
    /\ MoveFailed(i)

Move(i) ==
    /\ pc = "pool"
    /\ futures[i].pc = "move"
    /\ LET t == tasks[i]
           f == futures[i]
       IN  IF t.output_path \notin DOMAIN fs
           THEN MoveMissingSource(i)
           ELSE \/ \* os.rename succeeds
                   /\ fs' = Remove(Put(fs, t.pdf_path, fs[t.output_path]), t.output_path)
                   /\ faults' = faults
                   /\ Finish(i, Success(f), {"replaced"})
                \/ \* os.rename raises; the copy opens and truncates the original
                   /\ fs' = Put(fs, t.pdf_path, Partial(fs[t.output_path]))
                   /\ faults' = faults
                   /\ futures' = [futures EXCEPT ![i].pc = "move_copy",
                                                 ![i].moving = fs[t.output_path]]
                \/ \* os.rename raises and the original cannot be opened for writing
                   /\ faults < MaxFaults
                   /\ faults' = faults + 1
                   /\ fs' = fs
                   /\ MoveFailed(i)
    /\ UNCHANGED <<dirs, params, pc, lists, tasks, consumed, counters, summary, stat_failed>>

\* the copy of shutil.move's fallback writes the content
MoveCopy(i) ==
    /\ pc = "pool"
    /\ futures[i].pc = "move_copy"
    /\ LET t == tasks[i]
           f == futures[i]
       IN  \/ /\ fs' = Put(fs, t.pdf_path, f.moving)
              /\ faults' = faults
              /\ futures' = [futures EXCEPT ![i].pc = "move_unlink"]
           \/ /\ faults < MaxFaults
              /\ faults' = faults + 1
              /\ fs' = fs
              /\ MoveFailed(i)
    /\ UNCHANGED <<dirs, params, pc, lists, tasks, consumed, counters, summary, stat_failed>>

\* a task that counts its own success
MoveUnlink_counts(i) ==
    /\ pc = "pool"
    /\ futures[i].pc = "move_unlink"
    /\ LET t == tasks[i]
           f == futures[i]
       IN  IF t.output_path \in DOMAIN fs
           THEN /\ fs' = Remove(fs, t.output_path)
                /\ Finish(i, Success(f), {"replaced"})
                /\ successful_compressions' = successful_compressions + 1
           ELSE /\ fs' = fs
                /\ MoveFailed(i)
                /\ successful_compressions' = successful_compressions
    /\ UNCHANGED <<dirs, params, pc, lists, tasks, consumed, failed_compressions,
                   total_original_size, total_compressed_size, summary,
                   faults, stat_failed>>

\* os.unlink of the source ends shutil.move's fallback
MoveUnlink(i) ==
    /\ pc = "pool"
    /\ futures[i].pc = "move_unlink"
    /\ LET t == tasks[i]
           f == futures[i]
       IN  IF t.output_path \in DOMAIN fs
           THEN /\ fs' = Remove(fs, t.output_path)
                /\ Finish(i, Success(f), {"replaced"})
           ELSE /\ fs' = fs
                /\ MoveFailed(i)
    /\ UNCHANGED <<dirs, params, pc, lists, tasks, consumed, counters, summary,
                   faults, stat_failed>>

\* somebody else deletes the staged output of a task that has compressed its
\* file and has not finished replacing the original
BeforeReplace(f) == f.pc = "replace" \/ (f.pc = "move" /\ ~create_backup_flag)

ExternalDelete(i) ==
    /\ pc = "pool"
    /\ futures[i].pc \in {"replace", "probe", "copy", "move", "move_copy", "move_unlink"}
    /\ tasks[i].output_path \in DOMAIN fs
    /\ faults < MaxFaults
    /\ faults' = faults + 1
    /\ fs' = Remove(fs, tasks[i].output_path)
    /\ futures' = [futures EXCEPT ![i].events = @ \cup
                      {IF BeforeReplace(futures[i]) THEN "output_deleted_before_replace"
                                                    ELSE "output_deleted_during_replace"}]
    /\ UNCHANGED <<dirs, params, pc, lists, tasks, consumed, counters, summary, stat_failed>>

\* ------------------------------------------- the coordinating thread, again
\* a loop that adds the sizes of a failed job to the totals
Consume_counts_failed(i) ==
    /\ pc = "pool"
    /\ futures[i].pc = "done"
    /\ i \notin consumed
    /\ consumed' = consumed \cup {i}
    /\ total_original_size' = total_original_size + futures[i].original_size
    /\ total_compressed_size' = total_compressed_size + futures[i].compressed_size
    /\ IF futures[i].result.status = "success"
       THEN /\ successful_compressions' = successful_compressions + 1
            /\ failed_compressions' = failed_compressions
       ELSE /\ failed_compressions' = failed_compressions + 1
            /\ successful_compressions' = successful_compressions
    /\ UNCHANGED <<fs, dirs, params, pc, lists, tasks, futures, summary, faults, stat_failed>>

\* lines 400-427: one iteration of the loop over as_completed
Consume(i) ==
    /\ pc = "pool"
    /\ futures[i].pc = "done"
    /\ i \notin consumed
    /\ consumed' = consumed \cup {i}
    /\ LET result == futures[i].result
       IN  IF result.status = "success"
           THEN /\ successful_compressions' = successful_compressions + 1
                /\ total_original_size' = total_original_size + result.original_size
                /\ total_compressed_size' = total_compressed_size + result.compressed_size
                /\ failed_compressions' = failed_compressions
           ELSE /\ failed_compressions' = failed_compressions + 1
                /\ UNCHANGED <<successful_compressions, total_original_size,
                               total_compressed_size>>
    /\ UNCHANGED <<fs, dirs, params, pc, lists, tasks, futures, summary, faults, stat_failed>>

\* shutil.rmtree
rmtree(f, d) == [q \in {q \in DOMAIN f : ~IsPrefix(d, q.parent)} |-> f[q]]

\* lines 438-444: the pool is exhausted, the staging directory is removed
Cleanup ==
    /\ pc = "pool"
    /\ consumed = DOMAIN futures
    /\ pc' = "summary"
    /\ IF replace_originals /\ output_base_dir \in dirs
       THEN \/ /\ fs' = rmtree(fs, output_base_dir)
               /\ dirs' = {d \in dirs : ~IsPrefix(output_base_dir, d)}
               /\ faults' = faults
               /\ log' = log
            \/ \* rmtree raises; the exception is logged as a warning
               /\ faults < MaxFaults
               /\ faults' = faults + 1
               /\ log' = log \cup {"cleanup_failed"}
               /\ UNCHANGED <<fs, dirs>>
       ELSE UNCHANGED <<fs, dirs, faults, log>>
    /\ UNCHANGED <<settings, others, fs0, frame, stop_processing, lists, tasks, futures,
                   consumed, counters, summary, stat_failed>>

\* lines 465-472
Return ==
    /\ pc = "summary"
    /\ summary' = [successful |-> successful_compressions,
                   failed |-> failed_compressions,
                   skipped |-> Len(skipped_files),
                   total_original_size |-> total_original_size,
                   total_compressed_size |-> total_compressed_size]
    /\ pc' = "returned"
    /\ UNCHANGED <<fs, dirs, params, lists, tasks, futures, consumed, counters,
                   faults, stat_failed>>

\* ------------------------------------------------------------------ the GUI
\* the runs over the two small folders are the ones in which the user acts
\* on the GUI while the run is at work and the ones repeated in replace mode
SmallSelection == Len(confirmed) > 1

\* start_compression, lines 993-1052: the start button is pressed and the
\* confirmation is answered with yes.  A further run is started when the
\* earlier runs met no failure, on folders whose originals were kept or on
\* the two small folders.
StartRun ==
    /\ gui = "idle"
    /\ start_button = "normal"
    /\ runs < MaxRuns
    /\ runs > 0 => (faults = 0 /\ (~replace_originals \/ SmallSelection))
    /\ runs' = runs + 1
    /\ IF selected_folders = <<>>
       THEN /\ dialog' = "no_folder"
            /\ UNCHANGED <<gui, start_button, stop_processing, folder_i, totals,
                           confirmed>>
       ELSE IF \E k \in DOMAIN selected_folders : selected_folders[k] \notin dirs
            THEN /\ dialog' = "invalid_folders"
                 /\ UNCHANGED <<gui, start_button, stop_processing, folder_i, totals,
                                confirmed>>
            ELSE /\ dialog' = "none"
                 /\ confirmed' = selected_folders
                 /\ stop_processing' = FALSE
                 /\ start_button' = "disabled"
                 /\ gui' = "loop"
                 /\ folder_i' = 0
                 /\ totals' = NoTotals
    /\ UNCHANGED <<fs, dirs, fs0, settings, others, selected_folders, history, directory, log,
                   pc, lists, tasks, futures, consumed, counters, summary, faults,
                   stat_failed>>

\* run_compression_threaded, lines 1076-1090: the loop takes the next folder
\* of the list, finds the stop event clear and calls
\* compress_all_pdfs_in_directory_threaded on it
NextFolder ==
    /\ gui = "loop"
    /\ folder_i < Len(selected_folders)
    /\ ~stop_processing
    /\ folder_i' = folder_i + 1
    /\ directory' = selected_folders[folder_i + 1]
    /\ gui' = "call"
    /\ pc' = "start"
    /\ fs0' = fs
    /\ log' = IF selected_folders[folder_i + 1] \in dirs THEN {} ELSE {"root_missing"}
    /\ NoSession
    /\ UNCHANGED <<fs, dirs, settings, others, selected_folders, confirmed, stop_processing, start_button,
                   dialog, totals, runs, history, faults>>

\* the files below a directory
FilesBelow(f, d) == {p \in DOMAIN f : IsPrefix(d, p.parent)}

\* a loop that goes on to the next folder when the call raises
SessionRaised_goes_on ==
    /\ gui = "call"
    /\ pc = "raised"
    /\ pc' = "idle"
    /\ gui' = "loop"
    /\ NoSession
    /\ UNCHANGED <<fs, dirs, fs0, settings, others, selected_folders, confirmed, folder_i, stop_processing,
                   start_button, dialog, totals, runs, history, directory, log, faults>>

\* lines 474-477 and 1150-1158: the exception of the session leaves the
\* loop, an error box is shown and the start button is enabled again
SessionRaised ==
    /\ gui = "call"
    /\ pc = "raised"
    /\ pc' = "idle"
    /\ gui' = "idle"
    /\ dialog' = "error"
    /\ start_button' = "normal"
    /\ NoSession
    /\ UNCHANGED <<fs, dirs, fs0, settings, others, selected_folders, confirmed, folder_i, stop_processing,
                   totals, runs, history, directory, log, faults>>

\* lines 1092-1097: the summary of the session is added to the totals
SessionReturned ==
    /\ gui = "call"
    /\ pc = "returned"
    /\ pc' = "idle"
    /\ gui' = "loop"
    /\ LET get(key) == IF key \in DOMAIN summary THEN summary[key] ELSE 0
       IN  totals' =
               [total_processed |-> totals.total_processed + 1,
                total_successful |-> totals.total_successful + get("successful"),
                total_failed |-> totals.total_failed + get("failed"),
                total_skipped |-> totals.total_skipped + get("skipped"),
                total_original_size |->
                    totals.total_original_size + get("total_original_size"),
                total_compressed_size |->
                    totals.total_compressed_size + get("total_compressed_size")]
    /\ history' = Append(history,
                      [run |-> runs, directory |-> directory, faults |-> faults,
                       discovered |-> Range(pdf_files), result |-> summary,
                       outputs |-> Cardinality(FilesBelow(fs, output_base_dir))])
    /\ NoSession
    /\ UNCHANGED <<fs, dirs, fs0, settings, others, selected_folders, confirmed, folder_i, stop_processing,
                   start_button, dialog, runs, directory, log, faults>>

\* lines 1077-1078 and 1099-1158: the list is exhausted or the stop event is
\* found set; the summary box is shown and the start button is enabled again
LoopExit ==
    /\ gui = "loop"
    /\ folder_i >= Len(selected_folders) \/ stop_processing
    /\ gui' = "idle"
    /\ dialog' = "complete"
    /\ start_button' = "normal"
    /\ UNCHANGED <<fs, dirs, fs0, settings, others, selected_folders, confirmed, folder_i, stop_processing,
                   totals, runs, history, directory, log, pc, lists, tasks, futures,
                   consumed, counters, summary, faults, stat_failed>>

\* line 508: the stop event of the GUI is set while a run is at work
Stop ==
    /\ gui # "idle"
    /\ SmallSelection
    /\ ~stop_processing
    /\ faults < MaxFaults
    /\ faults' = faults + 1
    /\ stop_processing' = TRUE
    /\ UNCHANGED <<fs, dirs, fs0, settings, others, frame, log, pc, lists, tasks, futures,
                   consumed, counters, summary, stat_failed>>

\* the folders the user can pick in the dialog
Folders == {<<"E">>, <<"F">>}

\* add_folder, lines 850-858, while a run is at work.  The loop reads the
\* list between two folders only (line 1076), so an edit made while a folder
\* is being processed acts as one made when its session has returned
AddFolder(d) ==
    /\ gui = "loop"
    /\ SmallSelection
    /\ d \in dirs
    /\ d \notin Range(selected_folders)
    /\ faults < MaxFaults
    /\ faults' = faults + 1
    /\ selected_folders' = Append(selected_folders, d)
    /\ UNCHANGED <<fs, dirs, fs0, settings, others, confirmed, folder_i, gui, stop_processing,
                   start_button, dialog, totals, runs, history, directory, log, pc,
                   lists, tasks, futures, consumed, counters, summary, stat_failed>>

\* remove_selected_folder, lines 959-966, while a run is at work
RemoveSelectedFolder(index) ==
    /\ gui = "loop"
    /\ SmallSelection
    /\ faults < MaxFaults
    /\ faults' = faults + 1
    /\ selected_folders' = SubSeq(selected_folders, 1, index - 1)
                               \o SubSeq(selected_folders, index + 1, Len(selected_folders))
    /\ UNCHANGED <<fs, dirs, fs0, settings, others, confirmed, folder_i, gui, stop_processing,
                   start_button, dialog, totals, runs, history, directory, log, pc,
                   lists, tasks, futures, consumed, counters, summary, stat_failed>>

\* clear_folders, lines 968-974, while a run is at work
ClearFolders ==
    /\ gui = "loop"
    /\ SmallSelection
    /\ selected_folders # <<>>
    /\ faults < MaxFaults
    /\ faults' = faults + 1
    /\ selected_folders' = <<>>
    /\ UNCHANGED <<fs, dirs, fs0, settings, others, confirmed, folder_i, gui, stop_processing,
                   start_button, dialog, totals, runs, history, directory, log, pc,
                   lists, tasks, futures, consumed, counters, summary, stat_failed>>

\* somebody else removes an empty folder of the list that the run, which
\* found it at line 1000, has not reached yet
ExternalRemoveFolder(k) ==
    /\ gui # "idle"
    /\ k > folder_i
    /\ selected_folders[k] \in dirs
    /\ FilesBelow(fs, selected_folders[k]) = {}
    /\ faults < MaxFaults
    /\ faults' = faults + 1
    /\ dirs' = {d \in dirs : ~IsPrefix(selected_folders[k], d)}
    /\ UNCHANGED <<fs, fs0, settings, others, frame, stop_processing, log, pc, lists, tasks,
                   futures, consumed, counters, summary, stat_failed>>

Worker(i) ==
    \/ Dispatch(i) \/ Compress(i) \/ ReplaceCheck(i) \/ Probe(i) \/ BackupCopy(i)
    \/ Move(i) \/ MoveCopy(i) \/ MoveUnlink(i)

Next ==
    \/ StartRun \/ NextFolder \/ SessionReturned \/ SessionRaised \/ LoopExit
    \/ Stop
    \/ \E k \in DOMAIN selected_folders : ExternalRemoveFolder(k)
    \/ \E d \in Folders : AddFolder(d)
    \/ \E k \in DOMAIN selected_folders : RemoveSelectedFolder(k)
    \/ ClearFolders
    \/ MakeOutputDirs \/ Discover \/ Filter \/ PrepareTasks \/ SubmitAll
    \/ \E i \in DOMAIN futures : Worker(i) \/ ExternalDelete(i) \/ Consume(i)
    \/ Cleanup \/ Return

Spec == Init /\ [][Next]_vars

\* every call of the tool and of the file system returns and every thread
\* is scheduled
FairSpec ==
    /\ Spec
    /\ WF_vars(\E i \in DOMAIN futures : Worker(i))
    /\ WF_vars(\E i \in DOMAIN futures : Consume(i))
    /\ WF_vars(Cleanup)
    /\ WF_vars(Return)

\* ================================================== the storage service
\* the batch runs and the rendering compressor, which the service leaves alone
desktop == <<fs, dirs, fs0, settings, frame, stop_processing, log, pc, lists, tasks,
             futures, consumed, counters, summary, faults, stat_failed>>

\* the job directory a handler finds or makes
DirOf(job_id) ==
    IF job_id \in DOMAIN storage THEN storage[job_id] ELSE JobDir(<<>>, <<>>, <<>>)

\* upload_file, lines 24-32: the job directory is made, the original file is
\* opened for writing, which empties it, and the handler waits for the
\* content
UploadOpen(job_id, size) ==
    /\ inflight = NoRequest
    /\ storage' = (job_id :> [DirOf(job_id) EXCEPT !.original = <<0>>]) @@ storage
    /\ inflight' = [op |-> "upload", job |-> job_id, size |-> size]
    /\ outcome' = Outcome("upload", job_id, 0, "")
    /\ UNCHANGED <<clock, desktop, renderer>>

\* upload_file, lines 33-55: the content and the metadata are written.  When
\* the job directory went away during the wait, metadata.json cannot be
\* opened and the handler answers 500
UploadWrite ==
    /\ inflight.op = "upload"
    /\ LET job_id == inflight.job
           metadata == [size |-> inflight.size, upload_time |-> clock]
       IN  IF job_id \in DOMAIN storage
           THEN /\ storage' = [storage EXCEPT ![job_id].original = <<inflight.size>>,
                                              ![job_id].metadata = <<metadata>>]
                /\ outcome' = Outcome("upload", job_id, 200, "uploaded")
           ELSE /\ storage' = storage
                /\ outcome' = Outcome("upload", job_id, 500, "Upload failed")
    /\ inflight' = NoRequest
    /\ UNCHANGED <<clock, desktop, renderer>>

\* get_original_file, lines 58-72
GetOriginal(job_id) ==
    /\ outcome' =
          IF job_id \notin DOMAIN storage
          THEN Outcome("original", job_id, 404, "Job not found")
          ELSE IF storage[job_id].original = <<>>
          THEN Outcome("original", job_id, 404, "Original file not found")
          ELSE Outcome("original", job_id, 200, "file_path")
    /\ UNCHANGED <<storage, clock, inflight, desktop, renderer>>

\* save_compressed_file, lines 80-88 and 97-98: the HTTPException of line 83
\* is raised inside the try block and "except Exception" of line 97 catches
\* it, HTTPException being an Exception; otherwise the compressed file is
\* opened for writing and the handler waits for the content
SaveOpen(job_id, size) ==
    /\ inflight = NoRequest
    /\ IF job_id \notin DOMAIN storage
       THEN /\ outcome' = Outcome("save", job_id, 500, "Save failed")
            /\ UNCHANGED <<storage, inflight>>
       ELSE /\ storage' = [storage EXCEPT ![job_id].compressed = <<0>>]
            /\ inflight' = [op |-> "save", job |-> job_id, size |-> size]
            /\ outcome' = Outcome("save", job_id, 0, "")
    /\ UNCHANGED <<clock, desktop, renderer>>

\* save_compressed_file, lines 89-95: the content is written to the open
\* file, which takes it also when its directory went away during the wait
SaveWrite ==
    /\ inflight.op = "save"
    /\ LET job_id == inflight.job
       IN  /\ storage' = IF job_id \in DOMAIN storage
                         THEN [storage EXCEPT ![job_id].compressed = <<inflight.size>>]
                         ELSE storage
           /\ outcome' = Outcome("save", job_id, 200, "saved")
    /\ inflight' = NoRequest
    /\ UNCHANGED <<clock, desktop, renderer>>

\* download_compressed_file, lines 101-120
Download(job_id) ==
    /\ outcome' =
          IF job_id \notin DOMAIN storage
          THEN Outcome("download", job_id, 404, "Job not found")
          ELSE IF storage[job_id].compressed = <<>>
          THEN Outcome("download", job_id, 404, "Compressed file not found")
          ELSE Outcome("download", job_id, 200, "application/pdf")
    /\ UNCHANGED <<storage, clock, inflight, desktop, renderer>>

\* line 146, in hundredths of a percent; the sizes of the model divide evenly
compression_ratio(compressed_size, size) == ((size - compressed_size) * 10000) \div size

\* get_file_info, lines 123-148: the division of line 146 raises
\* ZeroDivisionError when the metadata holds size 0; nothing catches it and
\* the request is answered 500
GetInfo(job_id) ==
    /\ outcome' =
          IF job_id \notin DOMAIN storage
          THEN Outcome("info", job_id, 404, "Job not found")
          ELSE IF storage[job_id].metadata = <<>>
          THEN Outcome("info", job_id, 404, "Metadata not found")
          ELSE IF storage[job_id].compressed = <<>>
          THEN Outcome("info", job_id, 200, "metadata")
          ELSE LET compressed_size == storage[job_id].compressed[1]
                   size == storage[job_id].metadata[1].size
               IN  IF size = 0
                   THEN Outcome("info", job_id, 500, "Internal Server Error")
                   ELSE [Outcome("info", job_id, 200, "metadata") EXCEPT
                            !.ratio = <<compression_ratio(compressed_size, size)>>]
    /\ UNCHANGED <<storage, clock, inflight, desktop, renderer>>

\* cleanup_job, lines 151-160
CleanupJob(job_id) ==
    /\ storage' = [j \in DOMAIN storage \ {job_id} |-> storage[j]]
    /\ outcome' = Outcome("cleanup", job_id, 200,
                          IF job_id \in DOMAIN storage THEN "cleaned up" ELSE "not found")
    /\ UNCHANGED <<clock, inflight, desktop, renderer>>

\* health_check, lines 163-172
Health ==
    /\ outcome' = Outcome("health", NoJob, 200, "healthy")
    /\ UNCHANGED <<storage, clock, inflight, desktop, renderer>>

Expired_inclusive(upload_time, cutoff_time) == upload_time <= cutoff_time

\* line 197
Expired(upload_time, cutoff_time) == upload_time < cutoff_time

\* cleanup_old_files, lines 179-204: one pass of the sweep.  The pass has no
\* await in it, so no handler runs during it; a directory without
\* metadata.json is passed over; the names of the directories it removes are
\* printed (line 199).  shutil.rmtree is taken to succeed: when it raises,
\* line 200 passes over the error and the directory waits for the next pass
Sweep ==
    /\ LET cutoff_time == clock - FILE_RETENTION_HOURS * TicksPerHour
           old == {j \in DOMAIN storage :
                      /\ storage[j].metadata # <<>>
                      /\ Expired(storage[j].metadata[1].upload_time, cutoff_time)}
       IN  /\ storage' = [j \in DOMAIN storage \ old |-> storage[j]]
           /\ outcome' = [Outcome("sweep", NoJob, 0, "") EXCEPT !.cleaned = old]
    /\ UNCHANGED <<clock, inflight, desktop, renderer>>

\* time passes
Tick ==
    /\ clock < MaxClock
    /\ clock' = clock + 1
    /\ UNCHANGED <<storage, inflight, outcome, desktop, renderer>>

\* the service alone; the list of folders of the desktop program is left
\* as it starts
ServiceInit ==
    /\ Init
    /\ Len(selected_folders) > 1
    /\ replace_mode = "no_replace" /\ ~recursive
    /\ min_file_size_mb = 0 /\ max_threads = 1

ServiceNext ==
    \/ \E job_id \in JobIds, size \in UploadSizes : UploadOpen(job_id, size)
    \/ UploadWrite
    \/ \E job_id \in JobIds : GetOriginal(job_id)
    \/ \E job_id \in JobIds, size \in CompressedSizes : SaveOpen(job_id, size)
    \/ SaveWrite
    \/ \E job_id \in JobIds : Download(job_id)
    \/ \E job_id \in JobIds : GetInfo(job_id)
    \/ \E job_id \in JobIds : CleanupJob(job_id)
    \/ Health
    \/ Sweep
    \/ Tick

ServiceSpec == ServiceInit /\ [][ServiceNext]_vars

\* ============================================ the rendering compressor
\* compress_with_settings of compress_v2.py, lines 327-383.  A document is
\* None or <<d>>, d holding the pages of the document and whether its native
\* handle has been closed

\* fitz.open: a document with its handle open
Document(pages, metadata) == <<[pages |-> pages, metadata |-> metadata, closed |-> FALSE]>>

\* Document.__len__, the page count
page_count(d) == Len(d[1].pages)

\* "if doc:", lines 380 and 382: the truth value of an object whose class
\* defines __len__ and no __bool__ is len(object) != 0
Truthy(d) == d # None /\ page_count(d) # 0

\* Document.close
Closed(d) == <<[d[1] EXCEPT !.closed = TRUE]>>

\* lines 353-357: the mode the page image is converted to
Converted(mode, grayscale) == IF grayscale THEN "L" ELSE "RGB"

\* the batch runs and the storage service, which the compressor leaves alone
rest == <<desktop, service>>

\* lines 329-330 and 337-341: the call, with its input and its settings
Call(pages, mode, grayscale, image_format, remove_meta) ==
    /\ stage = "idle"
    /\ call' = [pages |-> pages, mode |-> mode, grayscale |-> grayscale,
                image_format |-> image_format, remove_meta |-> remove_meta,
                error |-> FALSE]
    /\ doc' = None /\ new_doc' = None
    /\ stage' = "open"
    /\ UNCHANGED rest

\* lines 333-334: the input is opened and an empty document is made; opening
\* raises for a file that is missing or is no PDF
OpenDocuments ==
    /\ stage = "open"
    /\ \/ /\ doc' = Document([k \in 1..call.pages |-> call.mode], "input")
          /\ new_doc' = Document(<<>>, "new")
          /\ stage' = "pages"
       \/ /\ stage' = "except"
          /\ UNCHANGED <<doc, new_doc>>
    /\ UNCHANGED <<call, rest>>

\* lines 343-368: one turn of the loop renders a page, converts and encodes
\* its image and appends a page holding it to the new document; rendering
\* and encoding can raise
RenderPage ==
    /\ stage = "pages"
    /\ page_count(new_doc) < page_count(doc)
    /\ LET page == doc[1].pages[page_count(new_doc) + 1]
           img == [mode |-> Converted(page, call.grayscale),
                   format |-> IF call.image_format = "JPEG" THEN "JPEG" ELSE "PNG"]
       IN  \/ /\ new_doc' = <<[new_doc[1] EXCEPT !.pages = Append(@, img)]>>
              /\ stage' = "pages"
           \/ /\ stage' = "except"
              /\ new_doc' = new_doc
    /\ UNCHANGED <<doc, call, rest>>

\* lines 371-374: the metadata is emptied when that is asked for and the new
\* document is saved; Document.save raises for a document without pages, and
\* for an output path that cannot be written
Save ==
    /\ stage = "pages"
    /\ page_count(new_doc) = page_count(doc)
    /\ new_doc' = IF call.remove_meta
                  THEN <<[new_doc[1] EXCEPT !.metadata = "empty"]>>
                  ELSE new_doc
    /\ \/ /\ page_count(new_doc) # 0
          /\ stage' = "finally"
       \/ stage' = "except"
    /\ UNCHANGED <<doc, call, rest>>

\* lines 376-377: the error is raised again as an Exception
Except ==
    /\ stage = "except"
    /\ call' = [call EXCEPT !.error = TRUE]
    /\ stage' = "finally"
    /\ UNCHANGED <<doc, new_doc, rest>>

\* lines 379-383, and the return or the raise that follows
Finally ==
    /\ stage = "finally"
    /\ doc' = IF Truthy(doc) THEN Closed(doc) ELSE doc
    /\ new_doc' = IF Truthy(new_doc) THEN Closed(new_doc) ELSE new_doc
    /\ stage' = IF call.error THEN "raised" ELSE "returned"
    /\ UNCHANGED <<call, rest>>

\* the compressor alone
RenderInit == ServiceInit

RenderNext ==
    \/ \E pages \in 0..MaxPages, mode \in Modes, grayscale \in BOOLEAN,
          image_format \in {"JPEG", "PNG"}, remove_meta \in BOOLEAN :
          Call(pages, mode, grayscale, image_format, remove_meta)
    \/ OpenDocuments
    \/ RenderPage
    \/ Save
    \/ Except
    \/ Finally

RenderSpec == RenderInit /\ [][RenderNext]_vars

\* ------------------------------------------------------------------ claims
Done(i) == futures[i].pc = "done"
Status(i) == futures[i].result.status
Happened(i, e) == e \in futures[i].events
Jobs == DOMAIN futures
WithBackup == replace_mode = "replace_with_backup"

\* C1: in replace-with-backup mode, whenever the original path of a job no
\* longer holds the original content, a file of the job's backup directory
\* holds that content; and a job whose backup copy failed has ended as
\* failed with its original untouched.
BackupHolds(i) ==
    \E q \in DOMAIN fs : q.parent = tasks[i].backup_dir /\ fs[q] = fs0[tasks[i].pdf_path]

OriginalIntact(i) ==
    tasks[i].pdf_path \in DOMAIN fs /\ fs[tasks[i].pdf_path] = fs0[tasks[i].pdf_path]

C1_BackupBeforeReplace ==
    WithBackup =>
        \A i \in Jobs :
            /\ ~OriginalIntact(i) => BackupHolds(i)
            /\ Happened(i, "backup_failed") =>
                   Done(i) /\ Status(i) = "failed" /\ OriginalIntact(i)

\* C2: create_backup never overwrites an existing backup: the path its copy
\* writes does not exist when it is written, and every file of the backup
\* directory is left as it was.
C2_NeverOverwrites ==
    [][\A i \in Jobs :
          (futures[i].pc = "copy" /\ futures'[i].pc # "copy") =>
              /\ futures[i].backup_path \notin DOMAIN fs
              /\ \A q \in DOMAIN fs :
                     q.parent = tasks[i].backup_dir => q \in DOMAIN fs' /\ fs'[q] = fs[q]]_vars

\* C3: the replacement is atomic per file: in every state of a replace-mode
\* session the original path holds the complete original content or the
\* complete compressed content.
C3_AtomicReplace ==
    replace_originals =>
        \A i \in Jobs :
            /\ tasks[i].pdf_path \in DOMAIN fs
            /\ \/ fs[tasks[i].pdf_path] = fs0[tasks[i].pdf_path]
               \/ fs[tasks[i].pdf_path] = Compressed(fs0[tasks[i].pdf_path])

\* C4: a file whose move failed after its backup was made is named in the
\* returned summary as left in an inconsistent state.
InconsistentNamed(s) == IF "inconsistent" \in DOMAIN s THEN s.inconsistent ELSE {}

C4_ReplaceErrorSurfaced ==
    pc = "returned" =>
        \A i \in Jobs :
            Happened(i, "move_failed_after_backup") =>
                tasks[i].pdf_path \in InconsistentNamed(summary)

\* C5: in replace mode a job is marked successful only after its replace
\* step ran, after a successful compression; a job whose replace step failed
\* ends as failed, and draining it increments the failed counter and leaves
\* the successful counter and both size totals as they were.
C5_ReplaceFailureIsFailed ==
    [][\A i \in DOMAIN futures' :
          /\ (futures'[i].pc = "done" /\ "replace_failed" \in futures'[i].events)
                 => futures'[i].result.status = "failed"
          /\ (replace_originals /\ futures'[i].result.status = "success")
                 => {"compressed", "replaced"} \subseteq futures'[i].events
          /\ "replaced" \in futures'[i].events => "compressed" \in futures'[i].events
          /\ (i \in consumed' \ consumed /\ "replace_failed" \in futures[i].events)
                 => /\ failed_compressions' = failed_compressions + 1
                    /\ UNCHANGED <<successful_compressions, total_original_size,
                                   total_compressed_size>>]_vars

C5_Witness ==
    \E i \in consumed : Happened(i, "compressed") /\ Happened(i, "replace_failed")

\* C6: when the staged output of exactly one job is deleted after its
\* compression and before its replace step, and nothing else goes wrong,
\* the summary reports exactly one failure and the original of that job is
\* as it was before the session.
DeletedBeforeReplace == {i \in Jobs : Happened(i, "output_deleted_before_replace")}

C6_DeletedOutput ==
    (pc = "returned" /\ replace_originals /\ faults = 1) =>
        \A i \in DeletedBeforeReplace :
            /\ summary.failed = 1
            /\ Status(i) = "failed"
            /\ OriginalIntact(i)

C6_Witness ==
    /\ pc = "returned" /\ faults = 1 /\ DeletedBeforeReplace # {}
    /\ \E j \in Jobs : Status(j) = "success"

\* C7: once the jobs are submitted the session eventually returns, with an
\* outcome for every job, whichever of them fail.
C7_SessionCompletes ==
    (pc = "pool") ~>
        (/\ pc = "returned"
         /\ \A i \in Jobs : Done(i) /\ Status(i) \in {"success", "failed"} /\ i \in consumed
         /\ summary.successful + summary.failed = Len(tasks))

C7_Witness ==
    /\ pc = "returned"
    /\ \E i, j \in Jobs : i < j /\ Status(i) = "failed" /\ Status(j) = "success"

\* C8: the returned counters are the numbers of jobs that ended in success
\* and in failure, and the totals are the sums of the sizes of exactly the
\* successful jobs.
Succeeded == {i \in Jobs : Status(i) = "success"}
FailedJobs == {i \in Jobs : Status(i) = "failed"}

RECURSIVE SumOriginal(_)
SumOriginal(S) ==
    IF S = {} THEN 0
    ELSE LET i == CHOOSE j \in S : TRUE
         IN  fs0[tasks[i].pdf_path].size + SumOriginal(S \ {i})

RECURSIVE SumCompressed(_)
SumCompressed(S) ==
    IF S = {} THEN 0
    ELSE LET i == CHOOSE j \in S : TRUE
         IN  Compressed(fs0[tasks[i].pdf_path]).size + SumCompressed(S \ {i})

C8_SummaryCounts ==
    (pc = "returned" /\ Jobs # {}) =>
        /\ summary.successful = Cardinality(Succeeded)
        /\ summary.failed = Cardinality(FailedJobs)
        /\ summary.total_original_size = SumOriginal(Succeeded)
        /\ summary.total_compressed_size = SumCompressed(Succeeded)

C8_Witness ==
    /\ pc = "returned" /\ max_threads > 1
    /\ Cardinality(Succeeded) >= 2 /\ FailedJobs # {}

\* C9: in a returned summary every discovered file is counted once: no file
\* is both skipped and processed, and successful + failed + skipped is the
\* number of files discovered.
SkippedPaths == {skipped_files[k][1] : k \in DOMAIN skipped_files}

C9_CountedOnce ==
    pc = "returned" =>
        /\ summary.successful + summary.failed + summary.skipped
               = Cardinality(find_all_pdfs(fs0, directory, recursive))
        /\ Range(files_to_process) \cap SkippedPaths = {}
        /\ Range(files_to_process) \cup SkippedPaths = find_all_pdfs(fs0, directory, recursive)
        /\ Len(files_to_process) + Len(skipped_files) = Len(pdf_files)

C9_Witness ==
    /\ pc = "returned"
    /\ summary.skipped >= 1 /\ summary.successful >= 1 /\ summary.failed >= 1

\* C10: the size filter skips every file whose readable size is below the
\* threshold and keeps every file whose size is at or above it.
C10_SizeFilter ==
    pc \notin {"start", "discover", "filter"} =>
        \A p \in Range(pdf_files) \ stat_failed :
            IF fs0[p].size < min_file_size_mb
            THEN p \in SkippedPaths /\ p \notin Range(files_to_process)
            ELSE p \in Range(files_to_process) /\ p \notin SkippedPaths

C10_Witness ==
    /\ pc = "prepare"
    /\ \E p \in Range(files_to_process) : fs0[p].size = min_file_size_mb
    /\ \E p \in SkippedPaths : p \notin stat_failed /\ fs0[p].size = min_file_size_mb - 3

\* C11: a discovered file whose size cannot be read by the filter is put
\* into the list to process and not into the skipped list.
C11_FailOpen ==
    pc \in {"prepare", "submit", "pool", "summary", "returned"} =>
        \A p \in stat_failed : p \in Range(files_to_process) /\ p \notin SkippedPaths

\* C12: compress_pdf returns success only when the tool has exited with 0
\* and has written the output file during that call.
C12_SuccessNeedsOutput ==
    \A i \in Jobs : Happened(i, "compressed") => Happened(i, "tool_wrote")

\* C13: in a session that keeps the originals every file that was there
\* before the session is still there, every discovered file has the content
\* it had, and the only files written are the output files of the jobs.
OutputPaths == {tasks[i].output_path : i \in DOMAIN tasks}

C13_InputUntouched ==
    (pc # "idle" /\ ~replace_originals) =>
        /\ \A p \in DOMAIN fs0 :
               p \in DOMAIN fs /\ (p \notin OutputPaths => fs[p] = fs0[p])
        /\ \A p \in Range(pdf_files) : p \in DOMAIN fs /\ fs[p] = fs0[p]
        /\ \A p \in DOMAIN fs \ DOMAIN fs0 : p \in OutputPaths

C13_Witness ==
    /\ pc = "returned" /\ ~replace_originals
    /\ \E i, j \in Jobs :
          /\ Status(i) = "success" /\ Happened(i, "tool_wrote")
          /\ Status(j) = "failed"

\* C14: the output path of every task is the output directory joined with
\* the path of the source relative to the root, and two tasks of a session
\* with different sources have different output paths.
C14_MirroredDestinations ==
    \A i \in DOMAIN tasks :
        /\ IsPrefix(output_base_dir, tasks[i].output_path.parent)
        /\ tasks[i].output_path.parent =
               output_base_dir
                   \o SubSeq(tasks[i].pdf_path.parent, Len(directory) + 1,
                             Len(tasks[i].pdf_path.parent))
        /\ PathName(tasks[i].output_path) = PathName(tasks[i].pdf_path)
        /\ \A j \in DOMAIN tasks :
               tasks[i].pdf_path # tasks[j].pdf_path
                   => tasks[i].output_path # tasks[j].output_path

C14_Witness ==
    \E i, j \in DOMAIN tasks :
        /\ i # j
        /\ PathName(tasks[i].pdf_path) = PathName(tasks[j].pdf_path)
        /\ futures # <<>>

\* C15: when a session that replaces the originals has returned a summary,
\* the staging directory is gone, unless its removal failed.
C15_StagingRemoved ==
    (pc = "returned" /\ replace_originals /\ "cleanup_failed" \notin log) =>
        output_base_dir \notin dirs

\* C16: while the stop event is set no job is submitted and no session is
\* started.
C16_StopSubmitsNothing ==
    [][(stop_processing /\ stop_processing') =>
          /\ Len(futures') <= Len(futures)
          /\ pc = "idle" => pc' = "idle"]_vars

\* C17: a session started on a root that does not exist does not return a
\* summary.
C17_MissingRootFails ==
    "root_missing" \in log => pc # "returned"

\* C18: when discovery finds no file the session returns a summary with the
\* three counts at 0 and a message; it does not raise and submits no job.
C18_NothingFound ==
    [][(pc = "discover" /\ pc' # "discover"
            /\ find_all_pdfs(fs, directory, recursive) = {}) =>
          /\ pc' = "returned"
          /\ summary'.successful = 0 /\ summary'.failed = 0 /\ summary'.skipped = 0
          /\ summary'.message = "No PDF files found"
          /\ tasks' = <<>> /\ futures' = <<>>]_vars

C18_Witness ==
    /\ pc = "returned" /\ directory \in dirs
    /\ pdf_files = <<>> /\ futures = <<>>
    /\ summary.message = "No PDF files found"

\* C19: a session raises before any job is submitted; the run shows the
\* exception as an error, enables the start button and takes no further
\* folder from the list.
C19_SetupErrorAborts ==
    [][/\ pc' = "raised" => futures' = <<>>
       /\ (pc = "raised" /\ pc' # "raised") =>
              (dialog' = "error" /\ start_button' = "normal" /\ gui' = "idle")
       /\ (dialog = "error" /\ runs' = runs) =>
              (pc' = "idle" /\ folder_i' = folder_i /\ history' = history)]_vars

C19_Witness ==
    /\ gui = "idle" /\ dialog = "error" /\ start_button = "normal"
    /\ folder_i < Len(selected_folders)
    /\ selected_folders[folder_i + 1] \in dirs

\* C20: two sessions that keep the originals, on the same root, the later
\* one in a run that met no failure, discover the same files, return the
\* same counts and totals and leave the same number of output files; no
\* discovered file is an output of a session.
C20_RerunSame ==
    ~replace_originals =>
        \A k, l \in DOMAIN history :
            (k < l /\ history[k].directory = history[l].directory
                   /\ history[l].faults = 0) =>
                /\ history[l].discovered = history[k].discovered
                /\ history[l].result = history[k].result
                /\ history[l].outputs = history[k].outputs
                /\ \A p \in history[l].discovered :
                       p \in DOMAIN fs /\ fs[p].form = "original"

C20_Witness ==
    \E k, l \in DOMAIN history :
        /\ k < l /\ history[k].directory = history[l].directory
        /\ history[l].faults = 0 /\ ~replace_originals
        /\ history[l].result.successful >= 2 /\ history[l].result.skipped >= 1
        /\ history[l].outputs >= 2 /\ recursive

\* C21: on every directory the recursive search returns every file the
\* search of the directory alone returns.
C21_RecursiveSuperset ==
    \A d \in dirs : find_all_pdfs(fs, d, FALSE) \subseteq find_all_pdfs(fs, d, TRUE)

C21_Witness ==
    /\ pc = "filter" /\ recursive
    /\ find_all_pdfs(fs, directory, FALSE) # {}
    /\ find_all_pdfs(fs, directory, FALSE) # Range(pdf_files)
    /\ find_all_pdfs(fs, directory, FALSE) \subseteq Range(pdf_files)

\* C24: the counters of the summary change only in a step of the
\* coordinating thread that drains one finished future, or when a session
\* starts or is over; a step of a worker leaves them as they are, and while
\* the pool runs successful + failed is the number of futures drained.
C24_SingleWriter ==
    [][/\ counters' # counters =>
              \/ pc' \in {"start", "idle"}
              \/ /\ futures' = futures
                 /\ \E i \in DOMAIN futures : consumed' = consumed \cup {i} /\ i \notin consumed
       /\ futures' # futures => (counters' = counters \/ pc' \in {"start", "idle"})
       /\ pc' = "pool" =>
              successful_compressions' + failed_compressions' = Cardinality(consumed')]_vars

C24_Witness ==
    /\ pc = "pool" /\ max_threads > 1
    /\ Cardinality(consumed) = 1
    /\ Cardinality({i \in Jobs : Done(i)}) >= 2

\* what the run of the tool leaves in the record of a task
ToolEvents == {"tool_wrote", "tool_silent", "tool_error"}

\* C25: the tasks of a session are one per file to process; a task that has
\* run the tool does not run it again; a finished task stays as it is and a
\* drained future stays drained; the summary counts one outcome per task.
C25_NoRetries ==
    [][/\ \A i, j \in DOMAIN tasks' :
              tasks'[i].pdf_path = tasks'[j].pdf_path => i = j
       /\ futures' # <<>> =>
              /\ Len(futures') = Len(files_to_process')
              /\ \A i \in DOMAIN futures' : tasks'[i].pdf_path = files_to_process'[i]
       /\ \A i \in DOMAIN futures' :
              /\ futures'[i].events \cap ToolEvents # {} => futures'[i].pc # "compress"
              /\ Cardinality(futures'[i].events \cap ToolEvents) <= 1
       /\ futures' # <<>> =>
              \A i \in DOMAIN futures :
                  /\ futures[i].pc = "done" => futures'[i] = futures[i]
                  /\ i \in consumed => i \in consumed'
       /\ (pc' = "returned" /\ futures' # <<>>) =>
              summary'.successful + summary'.failed = Len(files_to_process')]_vars

C25_Witness ==
    /\ pc = "returned"
    /\ \E i, j \in Jobs :
          /\ Happened(i, "tool_error") /\ Status(i) = "failed"
          /\ Happened(j, "tool_wrote") /\ Status(j) = "success"

\* C26: in a session that replaces with backup no two jobs write their
\* backups to the same path.
C26_DistinctBackups ==
    \A i, j \in Jobs :
        (i # j /\ Happened(i, "backup_made") /\ Happened(j, "backup_made")) =>
            futures[i].backup_path # futures[j].backup_path

\* the directories the tool makes under a root
ToolDirs == {"original_backups", "temp_compressed"}

\* C27: in a recursive session that replaces with backup, on roots that
\* nobody else has touched, no task compresses a file of a backup directory
\* or of a staging directory.
C27_OnlyUserFiles ==
    (faults = 0 /\ WithBackup /\ recursive) =>
        \A i \in DOMAIN tasks : Range(tasks[i].pdf_path.parent) \cap ToolDirs = {}

\* the folders of the sessions of run r, in the order of their return
ProcessedOf(r) ==
    LET sessions == SelectSeq(history, LAMBDA h : h.run = r)
    IN  [k \in DOMAIN sessions |-> sessions[k].directory]

\* C28: a run that was not stopped and has shown its summary has processed
\* the folders that were in the list when it was confirmed, once each and in
\* the order of the list.
C28_ConfirmedFolders ==
    (gui = "idle" /\ dialog = "complete" /\ ~stop_processing) =>
        ProcessedOf(runs) = confirmed

\* the retention window, in readings of the clock
Retention == FILE_RETENTION_HOURS * TicksPerHour

\* the job directories with a recorded upload time
Recorded(st) == {j \in DOMAIN st : st[j].metadata # <<>>}

C29_SaveUnknownJob ==
    [][(/\ outcome'.op = "save" /\ outcome' # outcome
        /\ inflight = NoRequest
        /\ outcome'.job \notin DOMAIN storage) =>
          /\ outcome'.status = 404
          /\ outcome'.detail = "Job not found"
          /\ storage' = storage]_vars

\* C30: the info request for a job that has metadata is answered 200, and
\* with a compression ratio when the job has a compressed file.
C30_InfoAnswers ==
    \A j \in Recorded(storage) :
        (outcome.op = "info" /\ outcome.job = j) =>
            /\ outcome.status = 200
            /\ storage[j].compressed # <<>> => outcome.ratio # <<>>

\* C23: when compress_with_settings has returned or raised, every document
\* it opened is closed.
C23_HandlesReleased ==
    stage \in {"returned", "raised"} =>
        /\ doc # None => doc[1].closed
        /\ new_doc # None => new_doc[1].closed
====
